---- MODULE Spec2Model ----
(***************************************************************************)
(* Room checkout board: the room store (src/database/db.js), the HTTP/SSE  *)
(* server (src/server.js) and the browser client (src/public/app.js).      *)
(*                                                                         *)
(* Time is in milliseconds.  Date.now(), new Date().toISOString() and SQL  *)
(* NOW() all read the one wall clock `now`, which never runs backwards.    *)
(* ISO-8601 strings of equal width order like the instants they denote, so *)
(* updated_at is kept as the instant itself.                               *)
(***************************************************************************)
EXTENDS Integers, Sequences, FiniteSets, TLC

\* ------------------------------------------------------------ bounds
\* Wall-clock ticks (of one second each) the model lets pass.
MaxTicks == 1
\* Direct calls of the store's updateRoom and resetAllRooms in StoreSpec.
MaxCalls == 1
\* Keys one request body carries.
MaxBodyKeys == 1
\* HTTP requests the clients send in Spec.
MaxRequests == 2
SubscribeBy == 0
\* Update calls with a free room id and body in ApiSpec.
MaxApiCalls == 1
\* Rooms of the roster in StoreSpec and in Spec.
StoreRoster == 3
BoardRoster == 2
\* Connections an observer opens, one after the other.
MaxConnects == 1
\* Seconds that pass in ConvSpec.
MaxElapse == 2
\* Timer pulls a page has under way at a time in ConvSpec.
MaxPullsInFlight == 1
\* Clicks the pages make in ConvSpec.
MaxClicks == 1

\* ------------------------------------------------------------ data
\* The first rooms of the seeded roster (db.js initialRooms).
SeedIds == <<"201", "202", "203", "205">>

RoomIds == {SeedIds[i] : i \in 1..Len(SeedIds)}

\* A room id that is not in the roster.
UnknownId == "999"

\* display_order of the seeded rooms.
SeedOrder(id) ==
    CASE id = "201" -> 100 [] id = "202" -> 110 [] id = "203" -> 120 [] OTHER -> 130

\* A display_order that is no number (a JSON string, object, ...):
\* a.display_order - b.display_order is then NaN.
NotANumber == -1

NoteVals == {"", "late"}

\* One room record as db.js seeds it at time t.
SeedRoom(id, t) ==
    [room_id |-> id, display_order |-> SeedOrder(id), category |-> "general",
     is_active |-> 0, is_checkout |-> 0, notes |-> "", updated_at |-> t,
     extra |-> FALSE]

\* The first n rooms of initialRooms.
initialRooms(n, t) == [i \in 1..n |-> SeedRoom(SeedIds[i], t)]

\* A board left in use by an earlier run of the process (rooms.json, or the
\* rooms table): the first room active, the second active, checked out
\* and annotated.
BoardInUse(n, t) ==
    [initialRooms(n, t) EXCEPT ![1].is_active = 1,
                               ![2].is_active = 1, ![2].is_checkout = 1,
                               ![2].notes = "late"]

\* What the store holds when the process starts: what loadLocalDB reads
\* (the seed, or a saved board), or the rooms table (empty before the
\* first getAllRooms seeds it).
InitialStores(pg, n, t) ==
    IF pg THEN {<<>>, initialRooms(n, t), BoardInUse(n, t)}
    ELSE {initialRooms(n, t), BoardInUse(n, t)}

\* The keys a request body may carry.  "extra" stands for any key that is
\* not a column of the rooms table.
BodyKeys ==
    {"is_active", "is_checkout", "notes", "display_order", "updated_at", "room_id",
     "extra"}

\* The three keys the PostgreSQL branch lets through.
AllowedKeys == {"is_active", "is_checkout", "notes"}

\* A parsed JSON body: the keys it has and, for each, its value (a key it
\* does not have is kept at a fixed filler so that equal bodies are equal).
Bodies ==
    { b \in [keys : SUBSET BodyKeys, is_active : {0, 1}, is_checkout : {0, 1},
             notes : NoteVals, display_order : {0, 135, NotANumber},
             updated_at : {0, 1}, room_id : {"", "202"}] :
        /\ Cardinality(b.keys) <= MaxBodyKeys
        /\ ("is_active" \notin b.keys => b.is_active = 0)
        /\ ("is_checkout" \notin b.keys => b.is_checkout = 0)
        /\ ("notes" \notin b.keys => b.notes = "")
        /\ (b.display_order = 0 <=> "display_order" \notin b.keys)
        /\ (b.updated_at = 0 <=> "updated_at" \notin b.keys)
        /\ (b.room_id = "" <=> "room_id" \notin b.keys) }

\* The browser sessions.
Clients == {"c1", "c2"}

VARIABLES
    isPostgres,   \* db.js: !!process.env.DATABASE_URL, fixed for the process
    now,          \* the wall clock, ms
    store,        \* db.js localCache (JSON) or the rooms table (PostgreSQL)
    calls,        \* number of store calls made (StoreSpec)
    lastCall,     \* the last store call: its name, room id and body keys
    sseClients,   \* server.js sseClients: the observers registered
    channel,      \* per observer, the events written to its response so far
    reqs,         \* the HTTP requests under way, each with its stage
    nreq,         \* requests sent so far (gives each its id)
    rooms,        \* app.js rooms: each client's mirror
    currentMode,  \* app.js currentMode
    lastActionTime, \* app.js lastActionTime
    arrivals,     \* history: PATCH and reset requests in the order their handlers started
    commits,      \* history: ids of PATCH requests in the order the store applied them
    lastToggle,   \* history: per client, the room and body of its last toggle
    racedNotes,   \* history: per client, rooms whose notes edit was under way during a reset
    toast,        \* app.js showToast: per client, the kind of the last notice shown
    connection    \* app.js updateConnectionStatus: per client, the status shown

storeVars == <<isPostgres, now, store, calls, lastCall>>
serverVars == <<sseClients, channel, reqs, nreq, arrivals, commits>>
clientVars == <<rooms, currentMode, lastActionTime, lastToggle, racedNotes, toast,
               connection>>
vars == <<isPostgres, now, store, calls, lastCall, sseClients, channel, reqs, nreq,
          rooms, currentMode, lastActionTime, arrivals, commits, lastToggle, racedNotes,
          toast, connection>>

\* ------------------------------------------------------------ the store

\* localCache.findIndex(r => r.room_id === roomId): 0 stands for -1.
FindIndex(s, id) ==
    IF \E i \in 1..Len(s) : s[i].room_id = id
    THEN CHOOSE i \in 1..Len(s) :
            /\ s[i].room_id = id
            /\ \A j \in 1..(i - 1) : s[j].room_id # id
    ELSE 0

\* Object.assign(room, updates) restricted to the keys ks of the body.
AssignClearsCheckout(room, b, ks) ==
    [room EXCEPT
        !.is_active = IF "is_active" \in ks THEN b.is_active ELSE @,
        !.is_checkout = IF "is_checkout" \in ks THEN b.is_checkout
                        ELSE IF "is_active" \in ks /\ b.is_active = 0 THEN 0 ELSE @,
        !.notes = IF "notes" \in ks THEN b.notes ELSE @,
        !.display_order = IF "display_order" \in ks THEN b.display_order ELSE @,
        !.updated_at = IF "updated_at" \in ks THEN b.updated_at ELSE @,
        !.room_id = IF "room_id" \in ks THEN b.room_id ELSE @,
        !.extra = IF "extra" \in ks THEN TRUE ELSE @]

Assign(room, b, ks) ==
    [room EXCEPT
        !.is_active = IF "is_active" \in ks THEN b.is_active ELSE @,
        !.is_checkout = IF "is_checkout" \in ks THEN b.is_checkout ELSE @,
        !.notes = IF "notes" \in ks THEN b.notes ELSE @,
        !.display_order = IF "display_order" \in ks THEN b.display_order ELSE @,
        !.updated_at = IF "updated_at" \in ks THEN b.updated_at ELSE @,
        !.room_id = IF "room_id" \in ks THEN b.room_id ELSE @,
        !.extra = IF "extra" \in ks THEN TRUE ELSE @]

\* The keys of the body the store applies: every key (JSON branch,
\* Object.assign) or the allowed ones (PostgreSQL branch, keys filter).
AppliedKeys(pg, b) == IF pg THEN b.keys \cap AllowedKeys ELSE b.keys

\* The record after one accepted update at time t: the body's fields, then
\* the store's own stamp.
StampFirst(pg, room, b, t) ==
    Assign([room EXCEPT !.updated_at = t], b, AppliedKeys(pg, b))

ApplyUpdate(pg, room, b, t) ==
    [Assign(room, b, AppliedKeys(pg, b)) EXCEPT !.updated_at = t]

\* Whether updateRoom finds something to update: the JSON branch needs the
\* room, the PostgreSQL branch also at least one allowed key.
Accepts(pg, s, id, b) ==
    /\ FindIndex(s, id) # 0
    /\ pg => b.keys \cap AllowedKeys # {}

\* db.updateRoom that inserts the record when the room is missing.
updateRoomOrInsert(pg, s, id, b, t) ==
    IF Accepts(pg, s, id, b)
    THEN [s EXCEPT ![FindIndex(s, id)] = ApplyUpdate(pg, @, b, t)]
    ELSE IF FindIndex(s, id) = 0 THEN Append(s, ApplyUpdate(pg, SeedRoom(id, t), b, t))
    ELSE s

\* db.updateRoom with an UPDATE that has lost its WHERE clause.
updateRoomEverywhere(pg, s, id, b, t) ==
    IF Accepts(pg, s, id, b)
    THEN [i \in 1..Len(s) |-> ApplyUpdate(pg, s[i], b, t)]
    ELSE s

\* db.updateRoom: the store after the call.
updateRoom(pg, s, id, b, t) ==
    IF Accepts(pg, s, id, b)
    THEN [s EXCEPT ![FindIndex(s, id)] = ApplyUpdate(pg, @, b, t)]
    ELSE s

\* One room after resetAllRooms at time t.
ResetKeepsNotes(room, t) ==
    [room EXCEPT !.is_active = 0, !.is_checkout = 0, !.updated_at = t]

ResetRoom(room, t) ==
    [room EXCEPT !.is_active = 0, !.is_checkout = 0, !.notes = "", !.updated_at = t]

\* db.resetAllRooms: the store after the call.
resetAllRooms(s, t) == [i \in 1..Len(s) |-> ResetRoom(s[i], t)]

\* (a, b) => a.display_order - b.display_order, with NaN for a non-number.
\* "nan" is what Array.prototype.sort reads as +0.
Compare(a, b) ==
    IF a.display_order = NotANumber \/ b.display_order = NotANumber THEN "nan"
    ELSE IF a.display_order < b.display_order THEN "lt"
    ELSE IF a.display_order > b.display_order THEN "gt"
    ELSE "eq"

\* Insert room r into the sorted sequence s after every element that is not
\* greater: the stable order.
RECURSIVE InsertSorted(_, _)
InsertSorted(r, s) ==
    IF s = <<>> THEN <<r>>
    ELSE IF Compare(s[Len(s)], r) = "gt"
         THEN Append(InsertSorted(r, SubSeq(s, 1, Len(s) - 1)), s[Len(s)])
         ELSE Append(s, r)

RECURSIVE StableSort(_)
StableSort(s) ==
    IF s = <<>> THEN <<>>
    ELSE InsertSorted(s[Len(s)], StableSort(SubSeq(s, 1, Len(s) - 1)))

\* Every arrangement of the elements of s.
Arrangements(s) ==
    { [i \in 1..Len(s) |-> s[p[i]]] :
        p \in { q \in [1..Len(s) -> 1..Len(s)] :
                  \A i, j \in 1..Len(s) : i # j => q[i] # q[j] } }

\* What arr.sort(byDisplayOrder) may leave: the stable order when the
\* comparator is consistent; with a NaN difference the comparator is not
\* consistent and ECMAScript leaves the order to the implementation.
SortOutcomes(s) ==
    IF \E i \in 1..Len(s) : s[i].display_order = NotANumber
    THEN Arrangements(s)
    ELSE {StableSort(s)}

\* What db.getAllRooms resolves to once the store is s: localCache itself,
\* just sorted in place (JSON), or the rows ORDER BY display_order ASC.
Listing(pg, s) == IF pg THEN StableSort(s) ELSE s

\* localCache.find(r => r.room_id === roomId); only used where the room is there.
RoomOf(s, id) == s[FindIndex(s, id)]

Has(s, id) == FindIndex(s, id) # 0

\* ------------------------------------------------------------ store calls

NoCall == [op |-> "none", id |-> "", keys |-> {}, found |-> FALSE, dirty |-> FALSE]

NoToggle ==
    [room |-> "", body |-> [keys |-> {}, is_active |-> 0, is_checkout |-> 0,
                            notes |-> "", display_order |-> 0, updated_at |-> 0,
                            room_id |-> ""]]

\* No server connection and no client: the store module on its own.
Idle ==
    /\ sseClients = {}
    /\ channel = [c \in Clients |-> <<>>]
    /\ reqs = {}
    /\ nreq = 0
    /\ rooms = [c \in Clients |-> <<>>]
    /\ currentMode = [c \in Clients |-> "selection"]
    /\ lastActionTime = [c \in Clients |-> 0]
    /\ arrivals = <<>>
    /\ commits = <<>>
    /\ lastToggle = [c \in Clients |-> NoToggle]
    /\ racedNotes = [c \in Clients |-> {}]
    /\ toast = [c \in Clients |-> "none"]
    /\ connection = [c \in Clients |-> "none"]

InitStore ==
    /\ isPostgres \in BOOLEAN
    /\ now = 3000
    /\ store \in InitialStores(isPostgres, StoreRoster, now)
    /\ calls = 0
    /\ lastCall = NoCall
    /\ Idle

Tick ==
    /\ now < 3000 + MaxTicks * 1000
    /\ now' = now + 1000
    /\ UNCHANGED <<isPostgres, store, calls, lastCall, serverVars, clientVars>>

\* db.updateRoom(roomId, updates)
CallUpdateRoom ==
    /\ calls < MaxCalls
    /\ \E id \in RoomIds \cup {UnknownId}, b \in Bodies :
        /\ store' = updateRoom(isPostgres, store, id, b, now)
        /\ lastCall' = [op |-> "updateRoom", id |-> id, keys |-> b.keys,
                        found |-> Accepts(isPostgres, store, id, b), dirty |-> FALSE]
    /\ calls' = calls + 1
    /\ UNCHANGED <<isPostgres, now, serverVars, clientVars>>

\* db.resetAllRooms()
CallResetAllRooms ==
    /\ calls < MaxCalls
    /\ store' = resetAllRooms(store, now)
    /\ lastCall' = [op |-> "resetAllRooms", id |-> "", keys |-> {}, found |-> TRUE,
                    dirty |-> \E i \in 1..Len(store) :
                                store[i].is_active # 0 \/ store[i].is_checkout # 0
                                \/ store[i].notes # ""]
    /\ calls' = calls + 1
    /\ UNCHANGED <<isPostgres, now, serverVars, clientVars>>

\* db.getAllRooms(): the JSON branch sorts localCache in place and returns
\* it; the PostgreSQL branch seeds an empty table, else selects in order.
CallGetAllRooms ==
    /\ IF isPostgres
       THEN store' = IF store = <<>> THEN initialRooms(StoreRoster, now) ELSE store
       ELSE store' \in SortOutcomes(store)
    /\ lastCall' = [op |-> "getAllRooms", id |-> "", keys |-> {}, found |-> TRUE,
                    dirty |-> FALSE]
    /\ UNCHANGED <<isPostgres, now, calls, serverVars, clientVars>>

NextStore == Tick \/ CallUpdateRoom \/ CallResetAllRooms \/ CallGetAllRooms

StoreSpec == InitStore /\ [][NextStore]_vars

\* ------------------------------------------------------------ claims on the store

\* The step is a call of updateRoom that found its room.
UpdateStep == calls' = calls + 1 /\ lastCall'.op = "updateRoom" /\ lastCall'.found

\* The fields of a room record other than the stamp.
Unnamed(r, q, ks) ==
    /\ "is_active" \notin ks => q.is_active = r.is_active
    /\ "is_checkout" \notin ks => q.is_checkout = r.is_checkout
    /\ "notes" \notin ks => q.notes = r.notes
    /\ "display_order" \notin ks => q.display_order = r.display_order
    /\ "extra" \notin ks => q.extra = r.extra
    /\ "room_id" \notin ks => q.room_id = r.room_id
    /\ q.category = r.category

\* C1: updateRoom changes, in the room it addresses, only the fields its
\* body names (and updated_at), and changes no other room: a body naming
\* only notes leaves is_active and is_checkout, one naming only is_checkout
\* leaves notes, one clearing is_active leaves is_checkout.
C1_UpdateTouchesOnlyNamedFields ==
    [][UpdateStep =>
         /\ Len(store') = Len(store)
         /\ \A i \in 1..Len(store) :
              IF i = FindIndex(store, lastCall'.id)
              THEN Unnamed(store[i], store'[i], lastCall'.keys)
              ELSE store'[i] = store[i]]_vars

\* C1 witness: an update naming only is_active has cleared it on a room
\* that is checked out, and the room is still checked out.
C1_Witness ==
    /\ lastCall.op = "updateRoom"
    /\ lastCall.found
    /\ lastCall.keys = {"is_active"}
    /\ RoomOf(store, lastCall.id).is_active = 0
    /\ RoomOf(store, lastCall.id).is_checkout = 1

Cleared(r) == r.is_active = 0 /\ r.is_checkout = 0 /\ r.notes = ""

Ascending(s) ==
    \A i, j \in 1..Len(s) : i < j => Compare(s[i], s[j]) # "gt"

\* C3: after any sequence of updateRoom and resetAllRooms calls, whatever
\* their bodies, getAllRooms returns the rooms in ascending display_order.
C3_ListIsAscending ==
    lastCall.op = "getAllRooms" => Ascending(Listing(isPostgres, store))

\* Exactly one stored record bears the id.
Unique(s, id) == Cardinality({i \in 1..Len(s) : s[i].room_id = id}) = 1

\* C4: no call lowers the updated_at of a room (the one record of its
\* room_id), and an accepted update stores the store's clock reading, never
\* the updated_at of the request body.
C4_StampNeverDecreases ==
    [][/\ \A id \in RoomIds :
            (Unique(store, id) /\ Unique(store', id)) =>
                RoomOf(store', id).updated_at >= RoomOf(store, id).updated_at
       /\ UpdateStep => store'[FindIndex(store, lastCall'.id)].updated_at = now]_vars

\* C4 witness: an accepted update whose body carried an updated_at of its
\* own, made after the clock moved; the room bears the clock's reading.
C4_Witness ==
    /\ lastCall.op = "updateRoom"
    /\ lastCall.found
    /\ "updated_at" \in lastCall.keys
    /\ now > 3000
    /\ Has(store, lastCall.id)
    /\ RoomOf(store, lastCall.id).updated_at = now

\* C14: an update whose body names fields outside is_active, is_checkout
\* and notes is accepted when it also names one of the three, and whenever
\* it is accepted the extra names have no effect: room_id, display_order
\* and category keep their values and the record gains no field.
C14_ExtraNamesHaveNoEffect ==
    [][( /\ calls' = calls + 1
         /\ lastCall'.op = "updateRoom"
         /\ Has(store, lastCall'.id)
         /\ lastCall'.keys \ AllowedKeys # {} )
       => /\ lastCall'.keys \cap AllowedKeys # {} => lastCall'.found
          /\ lastCall'.found =>
               /\ store'[FindIndex(store, lastCall'.id)].room_id = lastCall'.id
               /\ store'[FindIndex(store, lastCall'.id)].display_order
                    = RoomOf(store, lastCall'.id).display_order
               /\ store'[FindIndex(store, lastCall'.id)].category
                    = RoomOf(store, lastCall'.id).category
               /\ store'[FindIndex(store, lastCall'.id)].extra
                    = RoomOf(store, lastCall'.id).extra]_vars

\* The ids of the rooms of a list.
Ids(s) == {s[i].room_id : i \in 1..Len(s)}

\* C15: whatever updates and resets were made, getAllRooms returns every
\* room of the seeded roster exactly once.
C15_RosterIsFixed ==
    lastCall.op = "getAllRooms" =>
        /\ Ids(Listing(isPostgres, store)) = {SeedIds[i] : i \in 1..StoreRoster}
        /\ Len(Listing(isPostgres, store)) = StoreRoster

\* ------------------------------------------------------------ server and clients

\* Filler for a request or event that carries no room.
NoRoom ==
    [room_id |-> "", display_order |-> 0, category |-> "", is_active |-> 0,
     is_checkout |-> 0, notes |-> "", updated_at |-> 0, extra |-> FALSE]

\* The body app.js sends: JSON.stringify({ is_active: v }), ({ is_checkout: v })
\* or ({ notes: v }), to PATCH /api/rooms/<room_id>.
FlagBody(key, v) ==
    [keys |-> {key}, is_active |-> IF key = "is_active" THEN v ELSE 0,
     is_checkout |-> IF key = "is_checkout" THEN v ELSE 0, notes |-> "",
     display_order |-> 0, updated_at |-> 0, room_id |-> ""]

NotesBody(v) ==
    [keys |-> {"notes"}, is_active |-> 0, is_checkout |-> 0, notes |-> v,
     display_order |-> 0, updated_at |-> 0, room_id |-> ""]

NoBody == [keys |-> {}, is_active |-> 0, is_checkout |-> 0, notes |-> "",
           display_order |-> 0, updated_at |-> 0, room_id |-> ""]

\* A request a client has sent.  auth: the request carries the cookie
\* auth_token=valid_1126.  status: the HTTP status of the answer, 0 before
\* there is one.  stage: "sent" (on its way), "query" (handler
\* awaits the database), "applied" (the UPDATE is done, the handler not yet
\* resumed), "listed" (the reset handler's SELECT is done), "response" (the
\* answer is on its way back).
NewRequest(rid, c, kind, silent, id, b) ==
    [rid |-> rid, c |-> c, kind |-> kind, stage |-> "sent", silent |-> silent,
     room |-> id, body |-> b, ok |-> TRUE, result |-> NoRoom, snapshot |-> <<>>,
     raced |-> FALSE, auth |-> TRUE, status |-> 0]

\* server.js broadcast: the message is written to every registered observer.
RoomUpdateEvent(rid, room) ==
    [type |-> "roomUpdate", rid |-> rid, room |-> room, roster |-> <<>>]

ResetEvent(rid, list) ==
    [type |-> "reset", rid |-> rid, room |-> NoRoom, roster |-> list]

\* The acknowledgement; n (history) counts the updates the store had applied
\* before it.
ConnectedEvent(n) == [type |-> "connected", rid |-> n, room |-> NoRoom, roster |-> <<>>]

broadcastToOne(ch, subs, ev) ==
    [c \in Clients |->
        IF c \in subs /\ c = (CHOOSE x \in subs : TRUE) THEN Append(ch[c], ev) ELSE ch[c]]

broadcast(ch, subs, ev) ==
    [c \in Clients |-> IF c \in subs THEN Append(ch[c], ev) ELSE ch[c]]

\* A choice of the first view that ignores the roster.
determineInitialModeBlind(list) == "selection"

\* app.js determineInitialMode
determineInitialMode(list) ==
    IF \E i \in 1..Len(list) : list[i].is_active # 0 THEN "management" ELSE "selection"

\* The system once each page has loaded: initApp has pulled the roster and
\* chosen the mode.  The board was last written a second earlier.
Init ==
    /\ isPostgres \in BOOLEAN
    /\ now = 3000
    /\ store \in {initialRooms(BoardRoster, now - 1000),
                  BoardInUse(BoardRoster, now - 1000)}
    /\ calls = 0
    /\ lastCall = NoCall
    /\ sseClients = {}
    /\ channel = [c \in Clients |-> <<>>]
    /\ reqs = {}
    /\ nreq = 0
    /\ rooms = [c \in Clients |-> Listing(isPostgres, store)]
    /\ currentMode = [c \in Clients |-> determineInitialMode(store)]
    /\ lastActionTime = [c \in Clients |-> 0]
    /\ arrivals = <<>>
    /\ commits = <<>>
    /\ lastToggle = [c \in Clients |-> NoToggle]
    /\ racedNotes = [c \in Clients |-> {}]
    /\ toast = [c \in Clients |-> "none"]
    /\ connection = [c \in Clients |-> "connected"]

\* GET /api/events: the acknowledgement is written, then the response is
\* registered.  An observer connects before more than SubscribeBy requests
\* have been sent.
Subscribe(c) ==
    /\ nreq <= SubscribeBy
    /\ c \notin sseClients
    /\ channel[c] = <<>>
    /\ channel' = [channel EXCEPT ![c] = <<ConnectedEvent(Len(commits))>>]
    /\ sseClients' = sseClients \cup {c}
    /\ UNCHANGED <<storeVars, reqs, nreq, arrivals, commits, clientVars>>

Send(m) ==
    /\ nreq < MaxRequests
    /\ reqs' = reqs \cup {m}
    /\ nreq' = nreq + 1

Arrival(m) ==
    [rid |-> m.rid, c |-> m.c, kind |-> m.kind, room |-> m.room, body |-> m.body]

\* History: the requests under way while resetAllRooms runs.
Raced(rs) == {[x EXCEPT !.raced = TRUE] : x \in rs}

\* server.js authentication middleware: an /api/ request without the cookie
\* is answered 401 and reaches no handler.
Reject(m) ==
    /\ m.stage = "sent"
    /\ ~m.auth
    /\ reqs' = (reqs \ {m}) \cup
         {[m EXCEPT !.stage = "response", !.ok = FALSE, !.status = 401]}
    /\ UNCHANGED <<storeVars, sseClients, channel, nreq, arrivals, commits, clientVars>>

\* The JSON branch: db's promises are already resolved, so a handler runs
\* to its end before any other handler starts.
ArriveJson(m) ==
    /\ ~isPostgres
    /\ m.stage = "sent"
    /\ m.auth
    /\ CASE m.kind = "list" ->
              \E sorted \in SortOutcomes(store) :
                /\ store' = sorted
                /\ reqs' = (reqs \ {m}) \cup
                     {[m EXCEPT !.stage = "response", !.snapshot = sorted,
                                !.status = 200]}
                /\ UNCHANGED <<channel, arrivals, commits>>
         [] m.kind = "patch" ->
              LET found == Accepts(FALSE, store, m.room, m.body)
                  after == updateRoom(FALSE, store, m.room, m.body, now)
                  row == IF found THEN after[FindIndex(store, m.room)] ELSE NoRoom
              IN /\ store' = after
                 /\ channel' = IF found
                               THEN broadcast(channel, sseClients, RoomUpdateEvent(m.rid, row))
                               ELSE channel
                 /\ reqs' = (reqs \ {m}) \cup
                      {[m EXCEPT !.stage = "response", !.ok = found, !.result = row,
                                 !.status = IF found THEN 200 ELSE 404]}
                 /\ arrivals' = Append(arrivals, Arrival(m))
                 /\ commits' = IF found THEN Append(commits, m.rid) ELSE commits
         [] OTHER ->
              \E sorted \in SortOutcomes(resetAllRooms(store, now)) :
                /\ store' = sorted
                /\ channel' = broadcast(channel, sseClients, ResetEvent(m.rid, sorted))
                /\ reqs' = Raced(reqs \ {m}) \cup
                     {[m EXCEPT !.stage = "response", !.status = 200]}
                /\ arrivals' = Append(arrivals, Arrival(m))
                /\ UNCHANGED commits
    /\ UNCHANGED <<isPostgres, now, calls, lastCall, sseClients, nreq, clientVars>>

\* The PostgreSQL branch: the handler hands its query to the pool and waits.
ArrivePg(m) ==
    /\ isPostgres
    /\ m.stage = "sent"
    /\ m.auth
    /\ reqs' = (reqs \ {m}) \cup {[m EXCEPT !.stage = "query"]}
    /\ arrivals' = IF m.kind = "list" THEN arrivals ELSE Append(arrivals, Arrival(m))
    /\ UNCHANGED <<storeVars, sseClients, channel, nreq, commits, clientVars>>

\* The database runs one statement of a waiting handler.
DbExec(m) ==
    /\ isPostgres
    /\ \/ /\ m.stage = "query" /\ m.kind = "list"
          /\ store' = IF store = <<>> THEN initialRooms(BoardRoster, now) ELSE store
          /\ reqs' = (reqs \ {m}) \cup
               {[m EXCEPT !.stage = "response", !.snapshot = Listing(TRUE, store'),
                          !.status = 200]}
          /\ UNCHANGED commits
       \/ /\ m.stage = "query" /\ m.kind = "patch"
          /\ LET found == Accepts(TRUE, store, m.room, m.body)
                 after == updateRoom(TRUE, store, m.room, m.body, now)
             IN /\ store' = after
                /\ reqs' = (reqs \ {m}) \cup
                     {[m EXCEPT !.stage = "applied", !.ok = found,
                                !.result = IF found THEN after[FindIndex(store, m.room)]
                                           ELSE NoRoom]}
                /\ commits' = IF found THEN Append(commits, m.rid) ELSE commits
       \/ /\ m.stage = "query" /\ m.kind = "reset"
          /\ store' = resetAllRooms(store, now)
          /\ reqs' = Raced(reqs \ {m}) \cup {[m EXCEPT !.stage = "applied"]}
          /\ UNCHANGED commits
       \/ /\ m.stage = "applied" /\ m.kind = "reset"
          /\ store' = IF store = <<>> THEN initialRooms(BoardRoster, now) ELSE store
          /\ reqs' = (reqs \ {m}) \cup
               {[m EXCEPT !.stage = "listed", !.snapshot = Listing(TRUE, store')]}
          /\ UNCHANGED commits
    /\ UNCHANGED <<isPostgres, now, calls, lastCall, sseClients, channel, nreq,
                   arrivals, clientVars>>

\* A handler resumes after its await: it broadcasts and answers.
Resume(m) ==
    /\ isPostgres
    /\ \/ /\ m.stage = "applied" /\ m.kind = "patch"
          /\ channel' = IF m.ok
                        THEN broadcast(channel, sseClients, RoomUpdateEvent(m.rid, m.result))
                        ELSE channel
       \/ /\ m.stage = "listed" /\ m.kind = "reset"
          /\ channel' = broadcast(channel, sseClients, ResetEvent(m.rid, m.snapshot))
    /\ reqs' = (reqs \ {m}) \cup
         {[m EXCEPT !.stage = "response", !.status = IF m.ok THEN 200 ELSE 404]}
    /\ UNCHANGED <<storeVars, sseClients, nreq, arrivals, commits, clientVars>>

\* A confirmation that is added to the list instead of patched in place.
updateRoomInListPush(list, updatedRoom) == Append(list, updatedRoom)

\* app.js updateRoomInList
updateRoomInList(list, updatedRoom) ==
    IF FindIndex(list, updatedRoom.room_id) # 0
    THEN [list EXCEPT ![FindIndex(list, updatedRoom.room_id)] = updatedRoom]
    ELSE list

\* A pull whose answer is dropped.
keepMirror(list, newRooms) == list

\* app.js fetchRooms, on a successful answer: rooms = newRooms when the JSON
\* of the two differs.
replaceIfChanged(list, newRooms) == IF newRooms # list THEN newRooms ELSE list

\* app.js fetchRooms(true) from the 3-second timer: skipped while the last
\* local action is less than 2000 ms old.
PollSkipped(c) == now - lastActionTime[c] < 2000

Poll(c) ==
    /\ ~PollSkipped(c)
    /\ Send(NewRequest(nreq + 1, c, "list", TRUE, "", NoBody))
    /\ UNCHANGED <<storeVars, sseClients, channel, arrivals, commits, clientVars>>

\* app.js toggleRoomSelection, from a click in the selection view
toggleRoomSelection(c, id) ==
    /\ currentMode[c] = "selection"
    /\ Has(rooms[c], id)
    /\ LET newValue == IF RoomOf(rooms[c], id).is_active # 0 THEN 0 ELSE 1
       IN /\ lastActionTime' = [lastActionTime EXCEPT ![c] = now]
          /\ rooms' = [rooms EXCEPT ![c][FindIndex(rooms[c], id)].is_active = newValue]
          /\ Send(NewRequest(nreq + 1, c, "patch", FALSE, id, FlagBody("is_active", newValue)))
          /\ lastToggle' = [lastToggle EXCEPT ![c] =
                              [room |-> id, body |-> FlagBody("is_active", newValue)]]
    /\ UNCHANGED <<storeVars, sseClients, channel, arrivals, commits, currentMode,
                   racedNotes, toast, connection>>

\* app.js toggleOut, from a click on a row of the management view
toggleOut(c, id) ==
    /\ currentMode[c] = "management"
    /\ Has(rooms[c], id)
    /\ RoomOf(rooms[c], id).is_active # 0
    /\ LET newValue == IF RoomOf(rooms[c], id).is_checkout # 0 THEN 0 ELSE 1
       IN /\ lastActionTime' = [lastActionTime EXCEPT ![c] = now]
          /\ rooms' = [rooms EXCEPT ![c][FindIndex(rooms[c], id)].is_checkout = newValue]
          /\ Send(NewRequest(nreq + 1, c, "patch", FALSE, id, FlagBody("is_checkout", newValue)))
          /\ lastToggle' = [lastToggle EXCEPT ![c] =
                              [room |-> id, body |-> FlagBody("is_checkout", newValue)]]
    /\ UNCHANGED <<storeVars, sseClients, channel, arrivals, commits, currentMode,
                   racedNotes, toast, connection>>

\* app.js editNote: the prompt returned newNote, different from room.notes
editNote(c, id, newNote) ==
    /\ currentMode[c] = "management"
    /\ Has(rooms[c], id)
    /\ RoomOf(rooms[c], id).is_active # 0
    /\ newNote # RoomOf(rooms[c], id).notes
    /\ rooms' = [rooms EXCEPT ![c][FindIndex(rooms[c], id)].notes = newNote]
    /\ Send(NewRequest(nreq + 1, c, "patch", FALSE, id, NotesBody(newNote)))
    /\ UNCHANGED <<storeVars, sseClients, channel, arrivals, commits, currentMode,
                   lastActionTime, lastToggle, racedNotes, toast, connection>>

\* app.js executeReset
executeReset(c) ==
    /\ Send(NewRequest(nreq + 1, c, "reset", FALSE, "", NoBody))
    /\ UNCHANGED <<storeVars, sseClients, channel, arrivals, commits, clientVars>>

\* rooms.filter(r => r.is_active).length
ActiveCount(list) == Cardinality({i \in 1..Len(list) : list[i].is_active # 0})

\* toggleMode without its test of the active rooms.
toggleModeUnchecked(c) ==
    /\ currentMode' = [currentMode EXCEPT ![c] =
                          IF @ = "selection" THEN "management" ELSE "selection"]
    /\ UNCHANGED <<storeVars, serverVars, rooms, lastActionTime, lastToggle, racedNotes,
                   toast, connection>>

\* app.js toggleMode: from selection to management only with an active
\* room in the mirror, else a notice; from management back to selection.
toggleMode(c) ==
    /\ IF currentMode[c] = "selection" /\ ActiveCount(rooms[c]) = 0
       THEN /\ toast' = [toast EXCEPT ![c] = "error"]
            /\ UNCHANGED currentMode
       ELSE /\ currentMode' = [currentMode EXCEPT ![c] =
                                 IF @ = "selection" THEN "management" ELSE "selection"]
            /\ UNCHANGED toast
    /\ UNCHANGED <<storeVars, serverVars, rooms, lastActionTime, lastToggle, racedNotes,
                   connection>>

\* app.js confirmSelection, the button of the selection view
confirmSelection(c) ==
    /\ currentMode[c] = "selection"
    /\ IF ActiveCount(rooms[c]) = 0
       THEN /\ toast' = [toast EXCEPT ![c] = "error"]
            /\ UNCHANGED currentMode
       ELSE /\ currentMode' = [currentMode EXCEPT ![c] = "management"]
            /\ toast' = [toast EXCEPT ![c] = "success"]
    /\ UNCHANGED <<storeVars, serverVars, rooms, lastActionTime, lastToggle, racedNotes,
                   connection>>

\* A pull after a failed update that is flagged silent.
RePullSilent(m) == [NewRequest(nreq + 1, m.c, "list", TRUE, "", NoBody) EXCEPT !.auth = m.auth]

\* The pull app.js updateRoom starts in its catch block: fetchRooms().
RePull(m) == [NewRequest(nreq + 1, m.c, "list", FALSE, "", NoBody) EXCEPT !.auth = m.auth]

\* The answer to a request reaches the page.  fetchRooms replaces the mirror
\* by the snapshot when the two differ and shows the status connected, and
\* on a failure shows a notice unless it is silent and the status
\* disconnected.  The pull of initApp (no status shown yet) is followed by
\* determineInitialMode.  updateRoom patches the returned record into the
\* mirror, and on a failure shows a notice and pulls the roster.
\* executeReset only shows a notice.
Deliver(m) ==
    /\ m.stage = "response"
    /\ reqs' = IF m.kind = "patch" /\ ~m.ok THEN (reqs \ {m}) \cup {RePull(m)}
               ELSE reqs \ {m}
    /\ nreq' = IF m.kind = "patch" /\ ~m.ok THEN nreq + 1 ELSE nreq
    /\ rooms' = CASE m.kind = "list" /\ m.ok ->
                       [rooms EXCEPT ![m.c] = replaceIfChanged(@, m.snapshot)]
                  [] m.kind = "patch" /\ m.ok ->
                       [rooms EXCEPT ![m.c] = updateRoomInList(@, m.result)]
                  [] OTHER -> rooms
    /\ toast' = CASE m.kind = "list" /\ (m.ok \/ m.silent) -> toast
                  [] m.kind = "patch" /\ m.ok -> toast
                  [] m.kind = "reset" /\ m.ok -> [toast EXCEPT ![m.c] = "success"]
                  [] OTHER -> [toast EXCEPT ![m.c] = "error"]
    /\ racedNotes' = IF m.kind = "patch" /\ m.raced /\ "notes" \in m.body.keys
                     THEN [racedNotes EXCEPT ![m.c] = @ \cup {m.room}]
                     ELSE racedNotes
    /\ connection' = IF m.kind = "list"
                     THEN [connection EXCEPT ![m.c] =
                              IF m.ok THEN "connected" ELSE "disconnected"]
                     ELSE connection
    /\ currentMode' = IF m.kind = "list" /\ connection[m.c] = "none"
                      THEN [currentMode EXCEPT ![m.c] = determineInitialMode(rooms'[m.c])]
                      ELSE currentMode
    /\ UNCHANGED <<storeVars, sseClients, channel, arrivals, commits,
                   lastActionTime, lastToggle>>

Next ==
    \/ Tick
    \/ \E c \in Clients : Subscribe(c)
    \/ \E c \in Clients : Poll(c)
    \/ \E c \in Clients, id \in RoomIds : toggleRoomSelection(c, id)
    \/ \E c \in Clients, id \in RoomIds : toggleOut(c, id)
    \/ \E c \in Clients, id \in RoomIds, v \in NoteVals : editNote(c, id, v)
    \/ \E c \in Clients : executeReset(c)
    \/ \E m \in reqs : ArriveJson(m)
    \/ \E m \in reqs : ArrivePg(m)
    \/ \E m \in reqs : DbExec(m)
    \/ \E m \in reqs : Resume(m)
    \/ \E m \in reqs : Deliver(m)

Spec == Init /\ [][Next]_vars

\* app.js updateRoom(roomId, updates) called with any room id and any body,
\* from a session that holds the authentication cookie or does not.
RequestUpdate(c, id, b, a) ==
    /\ nreq < MaxApiCalls
    /\ Send([NewRequest(nreq + 1, c, "patch", FALSE, id, b) EXCEPT !.auth = a])
    /\ UNCHANGED <<storeVars, sseClients, channel, arrivals, commits, clientVars>>

\* The server under update calls of any shape, with resets and observers.
NextApi ==
    \/ \E c \in Clients : Subscribe(c)
    \/ \E c \in Clients, id \in RoomIds \cup {UnknownId}, b \in Bodies, a \in BOOLEAN :
          RequestUpdate(c, id, b, a)
    \/ \E c \in Clients : executeReset(c)
    \/ \E m \in reqs : Reject(m)
    \/ \E m \in reqs : ArriveJson(m)
    \/ \E m \in reqs : ArrivePg(m)
    \/ \E m \in reqs : DbExec(m)
    \/ \E m \in reqs : Resume(m)
    \/ \E m \in reqs : Deliver(m)

ApiSpec == Init /\ [][NextApi]_vars

\* ------------------------------------------------------------ claims on the system

\* Every PATCH and reset whose handler has started has been applied.
Settled == \A m \in reqs : m.kind = "list" \/ m.stage # "query"

NamedBy(id, k) ==
    {i \in 1..Len(arrivals) : /\ arrivals[i].kind = "patch"
                              /\ arrivals[i].room = id
                              /\ k \in arrivals[i].body.keys}

Latest(S) == CHOOSE x \in S : \A y \in S : y <= x

\* C5: concurrent updates of one room end as if they had been applied one
\* after the other in the order their handlers started: once all of them are
\* applied, each field they name holds the value of the update that arrived
\* last among those naming it.
C5_ArrivalOrderDecides ==
    (Settled /\ \A i \in 1..Len(arrivals) : arrivals[i].kind = "patch") =>
        \A id \in RoomIds : Has(store, id) =>
            /\ NamedBy(id, "is_active") # {} =>
                 RoomOf(store, id).is_active =
                     arrivals[Latest(NamedBy(id, "is_active"))].body.is_active
            /\ NamedBy(id, "is_checkout") # {} =>
                 RoomOf(store, id).is_checkout =
                     arrivals[Latest(NamedBy(id, "is_checkout"))].body.is_checkout
            /\ NamedBy(id, "notes") # {} =>
                 RoomOf(store, id).notes =
                     arrivals[Latest(NamedBy(id, "notes"))].body.notes

\* The record r shows the values the body b names.
Shows(r, b) ==
    /\ "is_active" \in b.keys => r.is_active = b.is_active
    /\ "is_checkout" \in b.keys => r.is_checkout = b.is_checkout
    /\ "notes" \in b.keys => r.notes = b.notes

\* C6: a silently pulled snapshot that reaches a client less than two
\* seconds after its local toggle of room R is discarded for R, also when
\* the pull was started before the toggle: the mirror goes on showing the
\* toggled value.
C6_WindowKeepsToggledValue ==
    [][\A m \in reqs :
          ( /\ m.kind = "list" /\ m.silent /\ m.stage = "response"
            /\ reqs' = reqs \ {m}
            /\ lastToggle[m.c].room # ""
            /\ now - lastActionTime[m.c] < 2000
            /\ Shows(RoomOf(rooms[m.c], lastToggle[m.c].room), lastToggle[m.c].body) )
          => Shows(RoomOf(rooms'[m.c], lastToggle[m.c].room), lastToggle[m.c].body)]_vars

\* C7: when the server writes a roomUpdate event for room R to a connected
\* client, that client's mirror record of R becomes the event's payload,
\* whatever its suppression window.
C7_RoomUpdateReplacesMirror ==
    [][\A c \in sseClients :
          ( /\ Len(channel'[c]) = Len(channel[c]) + 1
            /\ channel'[c][Len(channel'[c])].type = "roomUpdate"
            /\ Has(rooms[c], channel'[c][Len(channel'[c])].room.room_id) )
          => RoomOf(rooms'[c], channel'[c][Len(channel'[c])].room.room_id)
                 = channel'[c][Len(channel'[c])].room]_vars

PosIn(seq, x) == CHOOSE i \in 1..Len(seq) : seq[i] = x

RoomUpdates(c) == {i \in 1..Len(channel[c]) : channel[c][i].type = "roomUpdate"}

\* C8: the roomUpdate events of one room are written to each observer in
\* the order in which the store applied the updates.
C8_EventsInCommitOrder ==
    \A c \in Clients : \A i, j \in RoomUpdates(c) :
        (i < j /\ channel[c][i].room.room_id = channel[c][j].room.room_id)
            => PosIn(commits, channel[c][i].rid) < PosIn(commits, channel[c][j].rid)

\* Two clients have each checked room 201 out, both requests are answered,
\* nothing else was asked of the store, and every observer was connected
\* before the first request was sent.
BothCheckedOut ==
    /\ reqs = {}
    /\ Len(arrivals) = 2
    /\ \A i \in 1..2 : /\ arrivals[i].kind = "patch"
                       /\ arrivals[i].room = "201"
                       /\ arrivals[i].body = FlagBody("is_checkout", 1)
    /\ arrivals[1].c # arrivals[2].c
    /\ \A c \in sseClients : channel[c][1].rid = 0

\* C9 as written: after two clients concurrently update room 201 with
\* {is_checkout: true}, the store holds is_checkout true and each connected
\* client's channel has received exactly one roomUpdate event that carries
\* the final record.
C9_OneEventPerChannel ==
    BothCheckedOut =>
        /\ RoomOf(store, "201").is_checkout = 1
        /\ \A c \in sseClients :
             Cardinality({i \in RoomUpdates(c) :
                             channel[c][i].room = RoomOf(store, "201")}) = 1

\* C9: after two clients concurrently update room 201 with
\* {is_checkout: true}, the store holds is_checkout true, and each connected
\* client's channel has received two roomUpdate events, one per update, each
\* showing room 201 checked out, the one of the update applied last carrying
\* the final record.
C9_OneEventPerUpdate ==
    BothCheckedOut =>
        /\ RoomOf(store, "201").is_checkout = 1
        /\ \A c \in sseClients :
            /\ Cardinality(RoomUpdates(c)) = 2
            /\ {channel[c][i].rid : i \in RoomUpdates(c)} = {arrivals[1].rid, arrivals[2].rid}
            /\ \A i \in RoomUpdates(c) :
                /\ channel[c][i].room.room_id = "201"
                /\ channel[c][i].room.is_checkout = 1
                /\ channel[c][i].rid = commits[Len(commits)] =>
                     channel[c][i].room = RoomOf(store, "201")

C9_Witness == BothCheckedOut /\ sseClients = Clients

Quiet(c) == \A m \in reqs : m.c # c

ResetReached(c) == \E i \in 1..Len(channel[c]) : channel[c][i].type = "reset"

\* C10: when a reset is performed while a client's notes edit of a room is
\* still unconfirmed, that client's mirror shows empty notes for the room
\* once the reset event has been written to it and its requests are
\* answered; stated for the orderings that leave the store's notes empty.
C10_ResetEmptiesMirrorNotes ==
    \A c \in sseClients : \A id \in racedNotes[c] :
        (Quiet(c) /\ ResetReached(c) /\ RoomOf(store, id).notes = "")
            => RoomOf(rooms[c], id).notes = ""

\* The step in which the store applies the update of request m.
Commits(m) == commits' = Append(commits, m.rid)

\* C13: a page that toggles room 201 on, from a roster in which 201 and 202
\* are inactive, shows 201 active in the step of the click; and when the
\* store applies that update while 202 is inactive, getAllRooms returns 201
\* active and 202 inactive.
C13_ToggleShowsAtOnceAndIsStored ==
    [][/\ \A c \in Clients :
            ( /\ toggleRoomSelection(c, "201")
              /\ RoomOf(rooms[c], "201").is_active = 0
              /\ RoomOf(rooms[c], "202").is_active = 0 )
            => ( /\ RoomOf(rooms'[c], "201").is_active = 1
                 /\ RoomOf(rooms'[c], "202").is_active = 0
                 /\ \E m \in reqs' : m.c = c /\ m.stage = "sent" )
       /\ \A m \in reqs :
            ( /\ Commits(m)
              /\ m.room = "201" /\ m.body = FlagBody("is_active", 1)
              /\ RoomOf(store, "202").is_active = 0 )
            => ( /\ RoomOf(Listing(isPostgres, store'), "201").is_active = 1
                 /\ RoomOf(Listing(isPostgres, store'), "202").is_active = 0 )]_vars

\* C13 witness: the page shows 201 active and 202 inactive, the store has
\* applied its update, and the confirmation has not reached the page yet.
C13_Witness ==
    \E m \in reqs :
        /\ m.room = "201" /\ m.body = FlagBody("is_active", 1)
        /\ m.stage \in {"applied", "response"} /\ m.ok
        /\ lastToggle[m.c].room = "201"
        /\ RoomOf(rooms[m.c], "201").is_active = 1
        /\ RoomOf(rooms[m.c], "202").is_active = 0
        /\ RoomOf(store, "201").is_active = 1
        /\ RoomOf(store, "202").is_active = 0

\* The answer to m reaches the page in this step.
Delivered(m) == m.stage = "response" /\ \A x \in reqs' : x.rid # m.rid

\* The page of m has already applied the confirmation of an update that it
\* sent after m.
LaterApplied(m) ==
    \E i \in 1..Len(arrivals) :
        /\ arrivals[i].c = m.c
        /\ arrivals[i].kind = "patch"
        /\ arrivals[i].rid > m.rid
        /\ \A x \in reqs : x.rid # arrivals[i].rid

\* C17: a response that was issued before one the page has already applied
\* does not regress the mirror: applying it lowers no room's updated_at.
C17_StaleResponseDoesNotRegress ==
    [][\A m \in reqs :
          (Delivered(m) /\ m.ok /\ m.kind \in {"list", "patch"} /\ LaterApplied(m))
          => \A id \in RoomIds :
                (Has(rooms[m.c], id) /\ Has(rooms'[m.c], id))
                    => RoomOf(rooms'[m.c], id).updated_at
                         >= RoomOf(rooms[m.c], id).updated_at]_vars

\* ------------------------------------------------------------ claims on lost responses

\* The network drops a request on its way to the server or the answer on
\* its way back: the page's fetch gets no response.
Lose(m) ==
    /\ m.stage \in {"sent", "response"}
    /\ reqs' = (reqs \ {m}) \cup {[m EXCEPT !.stage = "lost"]}
    /\ UNCHANGED <<storeVars, sseClients, channel, nreq, arrivals, commits, clientVars>>

\* app.js fetchRooms: the 5-second timer aborts a pull that got no response;
\* the catch block shows a notice unless the pull is silent.  (The timer is
\* modelled for pulls whose response is lost; updateRoom and executeReset
\* set no timer.)
AbortPull(m) ==
    /\ m.kind = "list"
    /\ m.stage = "lost"
    /\ reqs' = reqs \ {m}
    /\ toast' = IF m.silent THEN toast ELSE [toast EXCEPT ![m.c] = "error"]
    /\ connection' = [connection EXCEPT ![m.c] = "disconnected"]
    /\ currentMode' = IF connection[m.c] = "none"
                      THEN [currentMode EXCEPT ![m.c] = determineInitialMode(rooms[m.c])]
                      ELSE currentMode
    /\ UNCHANGED <<storeVars, sseClients, channel, nreq, arrivals, commits, rooms,
                   lastActionTime, lastToggle, racedNotes>>

\* Pages polling and toggling over a network that may lose messages.
NextNet ==
    \/ \E c \in Clients : Poll(c)
    \/ \E c \in Clients, id \in RoomIds : toggleRoomSelection(c, id)
    \/ \E c \in Clients, id \in RoomIds : toggleOut(c, id)
    \/ \E m \in reqs : Lose(m)
    \/ \E m \in reqs : AbortPull(m)
    \/ \E m \in reqs : ArriveJson(m)
    \/ \E m \in reqs : ArrivePg(m)
    \/ \E m \in reqs : DbExec(m)
    \/ \E m \in reqs : Resume(m)
    \/ \E m \in reqs : Deliver(m)

\* Whatever step can be taken is eventually taken: the server answers, the
\* network delivers what it has not lost, timers fire.
NetSpec == Init /\ [][NextNet]_vars /\ WF_vars(NextNet)

Pending(r) == \E m \in reqs : m.rid = r

\* C18: every snapshot pull and every update call a page issues eventually
\* completes, as a success or as a failure, also when its response never
\* arrives.
C18_EveryCallCompletes ==
    \A r \in 1..MaxRequests : Pending(r) ~> ~Pending(r)

\* ------------------------------------------------------------ claims on the API

\* The request with id rid is handled in this step: it moves to another
\* stage or is delivered.
Handled(m) == \A x \in reqs' : x.rid = m.rid => x.stage # m.stage

\* C11: an update of a room id that is not in the roster is answered 404,
\* no step handling it changes the store or writes an event, and no mirror
\* ever holds a record with that id.
C11_UnknownRoomIsNotFound ==
    /\ [](\A m \in reqs :
            (m.kind = "patch" /\ m.room = UnknownId /\ m.auth
             /\ m.stage \in {"applied", "response"}) => (~m.ok /\ m.status \in {0, 404}))
    /\ [](\A c \in Clients : ~Has(rooms[c], UnknownId))
    /\ [][\A m \in reqs :
            (m.kind = "patch" /\ m.room = UnknownId /\ Handled(m))
                => (store' = store /\ channel' = channel)]_vars

\* C11 witness: an observer is connected, the update of the unknown room has
\* been answered 404 and the page has shown its notice and pulled the roster
\* again.
C11_Witness ==
    /\ sseClients # {}
    /\ \E i \in 1..Len(arrivals) : /\ arrivals[i].room = UnknownId
                                   /\ toast[arrivals[i].c] = "error"
                                   /\ rooms[arrivals[i].c] = Listing(isPostgres, store)
    /\ reqs = {}
    /\ nreq = 2

\* An update whose body names none of is_active, is_checkout, notes.
Malformed(m) == m.kind = "patch" /\ m.auth /\ m.body.keys \cap AllowedKeys = {}

\* C16: a malformed update is answered with a failure, and no step handling
\* it changes a stored field (updated_at included) or writes an event.
C16_MalformedUpdateIsRejected ==
    /\ [](\A m \in reqs :
            (Malformed(m) /\ m.stage \in {"applied", "response"}) => ~m.ok)
    /\ [][\A m \in reqs :
            (Malformed(m) /\ Handled(m)) => (store' = store /\ channel' = channel)]_vars

\* C19: when a call is answered 401 the page turns to re-authentication
\* (its notice is the login one) and sends no further request on its own;
\* it does not pull the roster again as after a transient failure.
C19_UnauthorizedIsEscalated ==
    [][\A m \in reqs :
          (Delivered(m) /\ m.status = 401)
              => (nreq' = nreq /\ toast'[m.c] = "login")]_vars

\* The server answers request m in this step; x is m with its answer.
Answers(m, x) == m.stage # "response" /\ x.rid = m.rid /\ x.stage = "response"

\* Every observer registered gets ev appended, nobody else anything.
WrittenOnce(ev) ==
    \A c \in Clients :
        channel'[c] = IF c \in sseClients THEN Append(channel[c], ev) ELSE channel[c]

NextMode ==
    \/ \E c \in Clients, id \in RoomIds : toggleRoomSelection(c, id)
    \/ \E c \in Clients : toggleMode(c)
    \/ \E c \in Clients : confirmSelection(c)
    \/ \E m \in reqs : ArriveJson(m)
    \/ \E m \in reqs : ArrivePg(m)
    \/ \E m \in reqs : DbExec(m)
    \/ \E m \in reqs : Resume(m)
    \/ \E m \in reqs : Deliver(m)

ModeSpec == Init /\ [][NextMode]_vars

\* C12: in selection mode with no active room in the mirror,
\* confirmSelection and toggleMode leave the mode and the mirror as they are
\* and raise a notice; a page leaves selection mode only with at least one
\* active room in its mirror.
C12_NoManagementWithoutActiveRoom ==
    [][\A c \in Clients :
          /\ ( /\ currentMode[c] = "selection"
               /\ ActiveCount(rooms[c]) = 0
               /\ (toggleMode(c) \/ confirmSelection(c)) )
             => ( /\ currentMode'[c] = "selection"
                  /\ rooms' = rooms
                  /\ toast'[c] = "error" )
          /\ (currentMode[c] = "selection" /\ currentMode'[c] # "selection")
             => (ActiveCount(rooms[c]) > 0 /\ rooms' = rooms)]_vars

\* C12 witness: from a board with no active room, one page was refused the
\* switch and is still selecting, the other has activated a room and
\* switched to the management view.
C12_Witness ==
    \E c, d \in Clients :
        /\ currentMode[c] = "selection" /\ toast[c] = "error"
        /\ ActiveCount(rooms[c]) = 0
        /\ currentMode[d] = "management" /\ ActiveCount(rooms[d]) > 0

\* ------------------------------------------------------------ claims on the observers

\* The end of an observer's stream: its connection has closed.
ClosedMark == [type |-> "closed", rid |-> 0, room |-> NoRoom, roster |-> <<>>]

\* The connections an observer has opened so far.
Connections(c) == Cardinality({i \in 1..Len(channel[c]) : channel[c][i].type = "connected"})

\* GET /api/events at any moment: the acknowledgement is written, then the
\* response is registered.  An observer holds one connection at a time.
Connect(c) ==
    /\ c \notin sseClients
    /\ Connections(c) < MaxConnects
    /\ channel' = [channel EXCEPT ![c] = Append(@, ConnectedEvent(Len(commits)))]
    /\ sseClients' = sseClients \cup {c}
    /\ UNCHANGED <<storeVars, reqs, nreq, arrivals, commits, clientVars>>

\* A close handler that leaves the response registered.
CloseKeepsObserver(c) ==
    /\ c \in sseClients
    /\ channel' = [channel EXCEPT ![c] = Append(@, ClosedMark)]
    /\ UNCHANGED <<storeVars, sseClients, reqs, nreq, arrivals, commits, clientVars>>

\* req.on('close'): the observer's connection has closed, its response is
\* taken out of sseClients.
Close(c) ==
    /\ c \in sseClients
    /\ sseClients' = sseClients \ {c}
    /\ channel' = [channel EXCEPT ![c] = Append(@, ClosedMark)]
    /\ UNCHANGED <<storeVars, reqs, nreq, arrivals, commits, clientVars>>

\* Observers coming and going while the pages select rooms and reset.
NextSse ==
    \/ \E c \in Clients : Connect(c)
    \/ \E c \in Clients : Close(c)
    \/ \E c \in Clients, id \in RoomIds : toggleRoomSelection(c, id)
    \/ \E c \in Clients : executeReset(c)
    \/ \E m \in reqs : ArriveJson(m)
    \/ \E m \in reqs : ArrivePg(m)
    \/ \E m \in reqs : DbExec(m)
    \/ \E m \in reqs : Resume(m)
    \/ \E m \in reqs : Deliver(m)

SseSpec == Init /\ [][NextSse]_vars

\* The observer's latest connection is still open.
Open(c) ==
    \E i \in 1..Len(channel[c]) :
        /\ channel[c][i].type = "connected"
        /\ \A j \in (i + 1)..Len(channel[c]) : channel[c][j].type # "closed"

\* C21: the subscriber set holds only observers whose connection is open:
\* the step in which a connection closes takes the observer out of the set,
\* and no roomUpdate or reset event is written to a closed connection.
C21_OnlyOpenObserversAreRegistered ==
    /\ [](\A c \in sseClients : Open(c))
    /\ [](\A c \in Clients : \A i \in 1..(Len(channel[c]) - 1) :
            channel[c][i].type = "closed" => channel[c][i + 1].type = "connected")
    /\ [][\A c \in Clients :
            (Len(channel'[c]) > Len(channel[c])
             /\ channel'[c][Len(channel'[c])].type = "closed") => c \notin sseClients']_vars

\* C21 witness: an observer received the event of the first request and
\* closed; the other observer, still registered, received the events of both
\* requests.
C21_Witness ==
    \E c, d \in Clients :
        /\ c \notin sseClients /\ d \in sseClients
        /\ channel[c] # <<>> /\ channel[c][Len(channel[c])] = ClosedMark
        /\ \E i \in 1..Len(channel[c]) : channel[c][i].rid = 1 /\ channel[c][i].type # "connected"
        /\ \A i \in 1..Len(channel[c]) : channel[c][i].type = "connected" \/ channel[c][i].rid # 2
        /\ \E i \in 1..Len(channel[d]) : channel[d][i].rid = 2 /\ channel[d][i].type # "connected"

\* C22: the first event of a connection is connected, and an observer is
\* written no roomUpdate event for an update the store had applied before the
\* observer was registered.
C22_NoBacklogForNewObserver ==
    \A c \in Clients :
        /\ channel[c] # <<>> => channel[c][1].type = "connected"
        /\ \A i \in 1..Len(channel[c]) : \A j \in (i + 1)..Len(channel[c]) :
             (channel[c][i].type = "connected" /\ channel[c][j].type = "roomUpdate")
                 => PosIn(commits, channel[c][j].rid) > channel[c][i].rid

\* C23: every reset event written by the server carries a roster in which
\* every room has is_active false, is_checkout false and empty notes, also
\* when an update of a room is processed between the handler's reset call
\* and its re-read of the roster.
C23_ResetEventCarriesClearedRoster ==
    \A c \in Clients : \A i \in 1..Len(channel[c]) :
        channel[c][i].type = "reset"
            => \A k \in 1..Len(channel[c][i].roster) : Cleared(channel[c][i].roster[k])

\* The page of c makes a local change to its mirror in this step: a click or
\* an edit, which also sends its update.
LocalMutation(c) ==
    /\ rooms'[c] # rooms[c]
    /\ \E m \in reqs' \ reqs : m.c = c /\ m.kind = "patch" /\ m.stage = "sent"

\* C24: every local mutating action of a page (toggle active, toggle
\* checkout, edit note) sets lastActionTime to the current time in the step
\* in which it changes the mirror, so that a silent pull starting less than
\* 2 seconds later is skipped.
C24_LocalActionOpensWindow ==
    [][\A c \in Clients :
          LocalMutation(c) =>
              (lastActionTime'[c] = now /\ now' - lastActionTime'[c] < 2000)]_vars

\* ------------------------------------------------------------ claims on the pulls

\* fetchRooms without its test of the suppression window.
fetchRoomsAlways(c, silent) ==
    /\ Send(NewRequest(nreq + 1, c, "list", silent, "", NoBody))
    /\ UNCHANGED <<storeVars, sseClients, channel, arrivals, commits, clientVars>>

\* app.js fetchRooms(silent) up to its fetch: a silent pull returns at once
\* while the last local action is less than 2000 ms old; otherwise GET
\* /api/rooms is sent.  The timer of startPolling calls it with silent true.
fetchRooms(c, silent) ==
    IF silent /\ now - lastActionTime[c] < 2000
    THEN UNCHANGED vars
    ELSE /\ Send(NewRequest(nreq + 1, c, "list", silent, "", NoBody))
         /\ UNCHANGED <<storeVars, sseClients, channel, arrivals, commits, clientVars>>

\* The page's fetch fails: the network refuses the request or breaks before
\* the answer is read, and the promise is rejected.
Fail(m) ==
    /\ m.stage \in {"sent", "response"}
    /\ m.ok
    /\ reqs' = (reqs \ {m}) \cup
         {[m EXCEPT !.stage = "response", !.ok = FALSE, !.status = 0]}
    /\ UNCHANGED <<storeVars, sseClients, channel, nreq, arrivals, commits, clientVars>>

\* Pages toggling and polling over a network on which a fetch may fail.
NextPage ==
    \/ Tick
    \/ \E c \in Clients : fetchRooms(c, TRUE)
    \/ \E c \in Clients, id \in RoomIds : toggleRoomSelection(c, id)
    \/ \E c \in Clients, id \in RoomIds : toggleOut(c, id)
    \/ \E m \in reqs : Fail(m)
    \/ \E m \in reqs : ArriveJson(m)
    \/ \E m \in reqs : ArrivePg(m)
    \/ \E m \in reqs : DbExec(m)
    \/ \E m \in reqs : Resume(m)
    \/ \E m \in reqs : Deliver(m)

PageSpec == Init /\ [][NextPage]_vars

\* The page of c starts a pull in this step.
PullStarted(c, silent) ==
    \E m \in reqs' \ reqs : m.c = c /\ m.kind = "list" /\ m.silent = silent /\ m.stage = "sent"

\* The page of c learns in this step that an update call of its has failed.
UpdateFailed(c) ==
    \E m \in reqs : m.c = c /\ m.kind = "patch" /\ ~m.ok /\ Delivered(m)

\* C25: a silent fetchRooms that starts less than 2 seconds after
\* lastActionTime sends no request and leaves the mirror, the mode and the
\* connection status as they are; the non-silent fetchRooms that follows a
\* failed update is sent whatever the state of the window.
C25_SilentPullSkippedInWindow ==
    [][\A c \in Clients :
          /\ (fetchRooms(c, TRUE) /\ now - lastActionTime[c] < 2000)
                => UNCHANGED <<reqs, nreq, rooms, currentMode, connection, toast>>
          /\ UpdateFailed(c) => PullStarted(c, FALSE)]_vars

\* C25 witness: inside the window of a page a failed update has been
\* followed by a non-silent pull, which is under way.
C25_Witness ==
    \E m \in reqs :
        /\ m.kind = "list" /\ ~m.silent
        /\ now - lastActionTime[m.c] < 2000
        /\ toast[m.c] = "error"

\* C26: when an update call of a page fails, the page shows a notice and
\* starts a non-silent pull, whatever the state of the suppression window;
\* and when a non-silent pull succeeds the mirror is the snapshot pulled.
C26_FailedUpdateIsRevertedByPull ==
    [][/\ \A c \in Clients :
            UpdateFailed(c) => (PullStarted(c, FALSE) /\ toast'[c] = "error")
       /\ \A m \in reqs :
            (Delivered(m) /\ m.kind = "list" /\ ~m.silent /\ m.ok)
                => rooms'[m.c] = m.snapshot]_vars

\* C26 witness: a page toggled a room, the update never reached the store,
\* and after the pull that followed the failure the mirror is the store's
\* roster again, without the value the page had set.
C26_Witness ==
    \E c \in Clients :
        /\ lastToggle[c] # NoToggle
        /\ lastToggle[c].body.keys = {"is_active"}
        /\ toast[c] = "error"
        /\ connection[c] = "connected"
        /\ reqs = {}
        /\ arrivals = <<>>
        /\ rooms[c] = Listing(isPostgres, store)
        /\ RoomOf(rooms[c], lastToggle[c].room).is_active # lastToggle[c].body.is_active

\* C27: when the answer to a page's reset reports success, the mirror of
\* that page is the reset roster as soon as the answer has been handled:
\* every room of it has is_active false, is_checkout false and empty notes.
C27_ResetAnswerReplacesMirror ==
    [][\A m \in reqs :
          (Delivered(m) /\ m.kind = "reset" /\ m.ok)
              => \A k \in 1..Len(rooms'[m.c]) : Cleared(rooms'[m.c][k])]_vars

\* ------------------------------------------------------------ claims on the page load

\* The ids of the pulls of initApp: they precede every request the page
\* sends later.
LoadRid(c) == IF c = "c1" THEN -1 ELSE -2

\* The pages before DOMContentLoaded: the globals hold their initial values
\* (rooms = [], currentMode = 'selection', lastActionTime = 0).
InitLoad ==
    /\ isPostgres \in BOOLEAN
    /\ now = 3000
    /\ store \in {initialRooms(BoardRoster, now - 1000),
                  BoardInUse(BoardRoster, now - 1000)}
    /\ calls = 0
    /\ lastCall = NoCall
    /\ Idle

\* app.js initApp up to its await: fetchRooms() is called non-silent.  What
\* follows the await (startPolling, determineInitialMode) is in Deliver and
\* AbortPull.
initApp(c) ==
    /\ connection[c] = "none"
    /\ \A m \in reqs : m.rid # LoadRid(c)
    /\ reqs' = reqs \cup {NewRequest(LoadRid(c), c, "list", FALSE, "", NoBody)}
    /\ UNCHANGED <<storeVars, sseClients, channel, nreq, arrivals, commits, clientVars>>

\* The fetch of a pull fails.
FailPull(m) == m.kind = "list" /\ Fail(m)

\* Pages loading, then selecting rooms and switching views.
NextLoad ==
    \/ \E c \in Clients : initApp(c)
    \/ \E c \in Clients, id \in RoomIds : toggleRoomSelection(c, id)
    \/ \E c \in Clients : toggleMode(c)
    \/ \E m \in reqs : FailPull(m)
    \/ \E m \in reqs : ArriveJson(m)
    \/ \E m \in reqs : ArrivePg(m)
    \/ \E m \in reqs : DbExec(m)
    \/ \E m \in reqs : Resume(m)
    \/ \E m \in reqs : Deliver(m)

LoadSpec == InitLoad /\ [][NextLoad]_vars

\* C28: when the pull of initApp has been answered the mode is management
\* if at least one room of the mirror is active and selection otherwise, also
\* when the pull failed and the mirror is empty; afterwards toggleMode in
\* management always moves to selection, whatever the mirror holds.
C28_InitialModeAndWayBack ==
    [][/\ \A m \in reqs :
            (Delivered(m) /\ m.rid = LoadRid(m.c))
                => /\ currentMode'[m.c] = IF ActiveCount(rooms'[m.c]) > 0
                                          THEN "management" ELSE "selection"
                   /\ ~m.ok => (rooms'[m.c] = <<>> /\ currentMode'[m.c] = "selection")
                   /\ m.ok => rooms'[m.c] = m.snapshot
       /\ \A c \in Clients :
            (toggleMode(c) /\ currentMode[c] = "management")
                => currentMode'[c] = "selection"]_vars

\* C28 witness: one page's first pull failed and it is selecting with an
\* empty mirror; the other page loaded the board in use, and has since left
\* the management view for the selection view.
C28_Witness ==
    \E c, d \in Clients :
        /\ connection[c] = "disconnected" /\ rooms[c] = <<>>
        /\ currentMode[c] = "selection"
        /\ connection[d] = "connected" /\ currentMode[d] = "selection"
        /\ \E k \in 1..Len(rooms[d]) : rooms[d][k].is_active # 0 /\ rooms[d][k].notes = "late"

\* ------------------------------------------------------------ claims on convergence

\* The ids of the pulls the timer of page c starts: k tells apart those
\* under way at the same time.
TimerRid(c, k) == -(10 * k + (IF c = "c1" THEN 1 ELSE 2))

\* The clock, for as long as ConvSpec follows it.
Elapse ==
    /\ now < 3000 + MaxElapse * 1000
    /\ now' = now + 1000
    /\ UNCHANGED <<isPostgres, store, calls, lastCall, serverVars, clientVars>>

\* app.js startPolling: every 3 seconds the timer calls fetchRooms(true),
\* for as long as the page is open.
TimerPull(c) ==
    /\ ~PollSkipped(c)
    /\ \E k \in 1..MaxPullsInFlight :
        /\ \A m \in reqs : m.rid # TimerRid(c, k)
        /\ reqs' = reqs \cup {NewRequest(TimerRid(c, k), c, "list", TRUE, "", NoBody)}
    /\ UNCHANGED <<storeVars, sseClients, channel, nreq, arrivals, commits, clientVars>>

\* A click on a room, in whichever view the page shows.
Click(c, id) ==
    /\ nreq < MaxClicks
    /\ (toggleRoomSelection(c, id) \/ toggleOut(c, id))

\* Pages clicking for a while and polling for ever.
NextConv ==
    \/ Elapse
    \/ \E c \in Clients : TimerPull(c)
    \/ \E c \in Clients, id \in RoomIds : Click(c, id)
    \/ \E m \in reqs : ArriveJson(m)
    \/ \E m \in reqs : ArrivePg(m)
    \/ \E m \in reqs : DbExec(m)
    \/ \E m \in reqs : Resume(m)
    \/ \E m \in reqs : Deliver(m)

\* Timers fire, the server answers, the network delivers.
ConvSpec == Init /\ [][NextConv]_vars /\ WF_vars(NextConv)

\* A pull of page c succeeds in this step.
PullSucceeds(c) == \E m \in reqs : m.c = c /\ m.kind = "list" /\ m.ok /\ Deliver(m)

\* Every mirror is the roster getAllRooms returns.
Converged == \A c \in Clients : rooms[c] = Listing(isPostgres, store)

\* C29: if from some point on no page acts locally, every update under way
\* completes, and each page's poll keeps firing and succeeding, then
\* eventually every mirror equals the store's getAllRooms snapshot and stays
\* equal to it.  (The pages' local actions are finitely many by MaxClicks.)
C29_MirrorsConverge ==
    ( /\ <>[](\A m \in reqs : m.kind = "list")
      /\ \A c \in Clients : []<><<PullSucceeds(c)>>_vars )
        => <>[]Converged

\* C29 witness: the pages have spent their actions, nothing but pulls is
\* under way, the clock has run out of the window, and the mirrors differ
\* from each other still.
C29_Witness ==
    /\ nreq = MaxClicks
    /\ \A m \in reqs : m.kind = "list"
    /\ commits # <<>>
    /\ \A c \in Clients : ~PollSkipped(c)
    /\ rooms["c1"] # rooms["c2"]

\* ------------------------------------------------------------ claims on repeated edits

\* Page c alone has written: it made two edits of field k of room id, no
\* other request was sent, and the store has applied both updates.
TwoEditsBy(c, id, k) ==
    /\ nreq = 2
    /\ Len(arrivals) = 2
    /\ \A i \in 1..2 : /\ arrivals[i].c = c
                       /\ arrivals[i].kind = "patch"
                       /\ arrivals[i].room = id
                       /\ arrivals[i].body.keys = {k}
    /\ Len(commits) = 2
    /\ lastToggle[c].room = id
    /\ lastToggle[c].body.keys = {k}

\* C30: when a single page, with no other writer, edits the same field of
\* the same room twice in quick succession, then once both updates have
\* been processed the store holds the value of the page's last edit, in
\* whatever order the requests reach the server.
C30_LastEditWins ==
    \A c \in Clients : \A id \in RoomIds :
        /\ TwoEditsBy(c, id, "is_active")
             => RoomOf(store, id).is_active = lastToggle[c].body.is_active
        /\ TwoEditsBy(c, id, "is_checkout")
             => RoomOf(store, id).is_checkout = lastToggle[c].body.is_checkout

\* ------------------------------------------------------------ claims on the mirror's shape

\* The room ids of a list, in its order.
IdSeq(list) == [i \in 1..Len(list) |-> list[i].room_id]

\* A successful pull of page c is answered in this step; m is that pull.
PullApplied(c, m) == m.c = c /\ m.kind = "list" /\ m.ok /\ Delivered(m)

\* C31: after the first successful pull, the mirror's sequence of room ids
\* is that of the last snapshot applied: the step that applies a snapshot
\* gives the mirror the snapshot's ids, and every other step (an optimistic
\* edit, a confirmation patched in by updateRoomInList, a notice) leaves the
\* ids of every mirror as they are, adding, removing, duplicating and
\* reordering nothing.
C31_MirrorKeepsSnapshotIds ==
    [][\A c \in Clients :
          IF \E m \in reqs : PullApplied(c, m)
          THEN \E m \in reqs : PullApplied(c, m) /\ IdSeq(rooms'[c]) = IdSeq(m.snapshot)
          ELSE IdSeq(rooms'[c]) = IdSeq(rooms[c])]_vars

\* C31 witness: a page made an optimistic edit, its only request, and the
\* confirmation has been patched into its mirror, which shows the record
\* with the store's new stamp.
C31_Witness ==
    \E c \in Clients :
        /\ lastToggle[c] # NoToggle
        /\ nreq = 1 /\ reqs = {} /\ Len(commits) = 1
        /\ RoomOf(rooms[c], lastToggle[c].room) = RoomOf(store, lastToggle[c].room)
        /\ RoomOf(rooms[c], lastToggle[c].room).updated_at >= 3000
        /\ IdSeq(rooms[c]) = IdSeq(store)

====
